---- MODULE Spec2Model ----
(***************************************************************************)
(* Model of the repository pool, the sequential repository iterator and    *)
(* the concurrent row pipeline of repository_pool.go.                      *)
(*                                                                         *)
(* Identifiers are strings.  A path is a sequence of path segments, so     *)
(* that filepath.Base and filepath.Join are computed, not assumed.         *)
(***************************************************************************)
EXTENDS Integers, Sequences, FiniteSets, Bags, TLC

VARIABLES
    kind,          \* the file system: what lies at each location
    repositories,  \* RepositoryPool.repositories : map[string]string
    idOrder,       \* RepositoryPool.idOrder      : []string
    last,          \* the last pool operation, its arguments and its result
    cursor,        \* a RepositoryIter over the pool and what its calls returned
    wNum,          \* runtime.NumCPU(): the number of workers of a pipeline
    prod,          \* the row-producer factory: what it yields for each repository
    feeder,        \* per pipeline: fillRepoChannel's position and locals
    chans,         \* per pipeline: the channels done, repos, rows and the WaitGroup
    worker,        \* per pipeline and worker: rowReader's position and locals
    join,          \* per pipeline: the goroutine that waits and closes rows
    consumer,      \* per pipeline: the caller of rowRepoIter.Next and what it got
    panicked       \* the panic that ended the process, "" while it runs

poolVars == <<kind, repositories, idOrder, last, cursor>>
pipeVars == <<wNum, prod, feeder, chans, worker, join, consumer, panicked>>
vars == <<poolVars, pipeVars>>

----------------------------------------------------------------------------
(* Values *)

\* error values
NoErr == "nil"
EOF == "io.EOF"
ErrRepositoryNotExists == "git.ErrRepositoryNotExists"
ErrReadDir == "ioutil.ReadDir error"
IndexOutOfRange == "panic: index out of range"

\* identifiers handed to Add
Ids == {"", "a", "b"}

\* directory entry names, in the order ioutil.ReadDir returns them (sorted)
NameOrder == <<"a", "b">>
Names == {NameOrder[i] : i \in 1..Len(NameOrder)}

\* directories that can be listed, and one that cannot
Dirs == {<<"d">>, <<"e">>}
MissingDir == <<"z">>

\* filepath.Join(path, name) for a clean path and a plain name
Join(path, name) == Append(path, name)

\* filepath.Base(path): the last element of the path, "." for the empty path
Base(path) == IF Len(path) = 0 THEN "." ELSE path[Len(path)]

\* the storage locations of the model
Locs == {Join(d, n) : d \in Dirs, n \in Names}

Kinds == {"repo", "dir", "file", "none"}

\* the content of directory e is fixed, the content of directory d varies
FixedKind(loc) == IF loc = <<"e", "a">> THEN "repo" ELSE "file"

FileSystems == {k \in [Locs -> Kinds] : \A l \in Locs : l[1] = "e" => k[l] = FixedKind(l)}

NilRepo == [ID |-> "<nil>", Repo |-> <<>>]

----------------------------------------------------------------------------
(* External collaborators: go-git and the file system *)

\* git.PlainOpen(path): the handle of the repository at path, or an error
PlainOpen(path) ==
    IF path \in Locs /\ kind[path] = "repo"
    THEN [repo |-> path, err |-> NoErr]
    ELSE [repo |-> <<>>, err |-> ErrRepositoryNotExists]

\* ioutil.ReadDir(path): the entries of path sorted by name, or an error
ReadDir(path) ==
    IF path \in Dirs
    THEN [dirs |-> SelectSeq(NameOrder, LAMBDA n : kind[Join(path, n)] # "none"),
          err |-> NoErr]
    ELSE [dirs |-> <<>>, err |-> ErrReadDir]

\* os.FileInfo.IsDir() of the entry called name in path
IsDir(path, name) == kind[Join(path, name)] \in {"repo", "dir"}

----------------------------------------------------------------------------
(* Repository and RepositoryPool, as functions on a pool value              *)
(* p = [repositories |-> map, idOrder |-> sequence]                         *)

NewRepository(id, repo) == [ID |-> id, Repo |-> repo]

NewRepositoryFromPath(id, path) ==
    LET o == PlainOpen(path)
    IN  IF o.err # NoErr
        THEN [repo |-> NilRepo, err |-> o.err]
        ELSE [repo |-> NewRepository(id, o.repo), err |-> NoErr]

NewRepositoryPool == [repositories |-> <<>>, idOrder |-> <<>>]

\* a map with key k set to v
MapSet(m, k, v) == [x \in DOMAIN m \cup {k} |-> IF x = k THEN v ELSE m[x]]

\* a bug Add could have: the identifier is appended on every call
AddAlwaysAppends(p, id, path) ==
    [repositories |-> MapSet(p.repositories, id, path),
     idOrder |-> Append(p.idOrder, id)]

Add(p, id, path) ==
    [repositories |-> MapSet(p.repositories, id, path),
     idOrder |-> IF id \in DOMAIN p.repositories
                 THEN p.idOrder
                 ELSE Append(p.idOrder, id)]

\* a bug AddGit could have: the open error is not looked at
AddGitUnchecked(p, path) ==
    [pool |-> Add(p, Base(path), path), id |-> Base(path), err |-> NoErr]

AddGit(p, path) ==
    LET o == PlainOpen(path)
    IN  IF o.err # NoErr
        THEN [pool |-> p, id |-> "", err |-> o.err]
        ELSE [pool |-> Add(p, Base(path), path), id |-> Base(path), err |-> NoErr]

\* the loop of AddDir over the entries dirs[i..]
RECURSIVE AddDirLoop(_, _, _, _)
AddDirLoop(p, path, dirs, i) ==
    IF i > Len(dirs)
    THEN p
    ELSE IF IsDir(path, dirs[i])
         THEN AddDirLoop(AddGit(p, Join(path, dirs[i])).pool, path, dirs, i + 1)
         ELSE AddDirLoop(p, path, dirs, i + 1)

AddDir(p, path) ==
    LET r == ReadDir(path)
    IN  IF r.err # NoErr
        THEN [pool |-> p, err |-> r.err]
        ELSE [pool |-> AddDirLoop(p, path, r.dirs, 1), err |-> NoErr]

\* a bug GetPos could have: the bound check lets pos = len through
GetPosOffByOne(p, pos) ==
    IF pos > Cardinality(DOMAIN p.repositories)
    THEN [repo |-> NilRepo, err |-> EOF, opened |-> <<>>]
    ELSE IF pos + 1 > Len(p.idOrder)
         THEN [repo |-> NilRepo, err |-> IndexOutOfRange, opened |-> <<>>]
         ELSE LET id == p.idOrder[pos + 1]
                  r == NewRepositoryFromPath(id, p.repositories[id])
              IN  IF id = ""
                  THEN [repo |-> NilRepo, err |-> EOF, opened |-> <<>>]
                  ELSE [repo |-> r.repo, err |-> r.err, opened |-> p.repositories[id]]

\* a bug GetPos could have: the identifier is always the first one
GetPosFirst(p, pos) ==
    IF pos >= Cardinality(DOMAIN p.repositories)
    THEN [repo |-> NilRepo, err |-> EOF, opened |-> <<>>]
    ELSE LET id == p.idOrder[1]
             r == NewRepositoryFromPath(id, p.repositories[id])
         IN  IF id = ""
             THEN [repo |-> NilRepo, err |-> EOF, opened |-> <<>>]
             ELSE [repo |-> r.repo, err |-> r.err, opened |-> p.repositories[id]]

\* GetPos(pos), pos >= 0.  opened is the location handed to git.PlainOpen,
\* <<>> when the call opens nothing.
GetPos(p, pos) ==
    IF pos >= Cardinality(DOMAIN p.repositories)
    THEN [repo |-> NilRepo, err |-> EOF, opened |-> <<>>]
    ELSE IF pos + 1 > Len(p.idOrder)
         THEN [repo |-> NilRepo, err |-> IndexOutOfRange, opened |-> <<>>]
         ELSE LET id == p.idOrder[pos + 1]
                  r == NewRepositoryFromPath(id, p.repositories[id])
              IN  IF id = ""
                  THEN [repo |-> NilRepo, err |-> EOF, opened |-> <<>>]
                  ELSE [repo |-> r.repo, err |-> r.err, opened |-> p.repositories[id]]

\* a bug Next could have: the position is not advanced
IterNextNoAdvance(p, pos) ==
    LET r == GetPos(p, pos)
    IN  IF r.err # NoErr
        THEN [repo |-> NilRepo, err |-> r.err, pos |-> pos]
        ELSE [repo |-> r.repo, err |-> NoErr, pos |-> pos]

\* a bug Next could have: the position is advanced past a failure
IterNextSkipsFailed(p, pos) ==
    LET r == GetPos(p, pos)
    IN  IF r.err # NoErr
        THEN [repo |-> NilRepo, err |-> r.err,
              pos |-> IF r.err = EOF THEN pos ELSE pos + 1]
        ELSE [repo |-> r.repo, err |-> NoErr, pos |-> pos + 1]

\* RepositoryIter.Next() on a cursor at position pos over pool p
IterNext(p, pos) ==
    LET r == GetPos(p, pos)
    IN  IF r.err # NoErr
        THEN [repo |-> NilRepo, err |-> r.err, pos |-> pos]
        ELSE [repo |-> r.repo, err |-> NoErr, pos |-> pos + 1]

----------------------------------------------------------------------------
(* The row-producer factory (the RowRepoIter interface) *)

\* the most rows a producer yields
MaxRows == 2

ErrNewIterator == "NewIterator error"
ErrProducer(id) == "producer error in " \o id

NilRow == [repo |-> "<nil>", n |-> 0]
NilIter == [id |-> "<nil>", n |-> 0, closed |-> 0]

\* What the factory does: NewIterator fails for the repositories in
\* newFails; a producer yields `rows` rows and then io.EOF, but the
\* producers of the repositories in `fails` yield failAfter rows and then
\* an error.
Factory(ids, maxRows) ==
    {f \in [newFails : SUBSET ids, rows : 0..maxRows, fails : SUBSET ids,
            failAfter : 0..maxRows] :
        /\ f.failAfter <= f.rows
        /\ f.fails = {} => f.failAfter = 0}

DefaultFactory == [newFails |-> {}, rows |-> 0, fails |-> {}, failAfter |-> 0]

\* the rows the producer of repository id yields before it ends
RowsOf(id) == IF id \in prod.fails THEN prod.failAfter ELSE prod.rows

\* RowRepoIter.NewIterator(repo)
NewIterator(repo) ==
    IF repo.ID \notin prod.newFails
    THEN [iter |-> [id |-> repo.ID, n |-> 0, closed |-> 0], err |-> NoErr]
    ELSE [iter |-> NilIter, err |-> ErrNewIterator]

\* RowRepoIter.Next() on producer it: the k-th row of repository id is
\* [repo |-> id, n |-> k]
ProducerNext(it) ==
    IF it.n < RowsOf(it.id)
    THEN [row |-> [repo |-> it.id, n |-> it.n + 1], err |-> NoErr,
          iter |-> [it EXCEPT !.n = @ + 1]]
    ELSE [row |-> NilRow,
          err |-> IF it.id \in prod.fails THEN ErrProducer(it.id) ELSE EOF,
          iter |-> it]

\* RowRepoIter.Close() on producer it
ProducerClose(it) == [it EXCEPT !.closed = @ + 1]

----------------------------------------------------------------------------
(* The state of a pipeline right after NewRowRepoIter returned *)

\* the most pipelines running at once
MaxRuns == 2
Runs == 1..MaxRuns

\* the most workers of a pipeline
MaxWorkers == 2

NewFeeder == [pc |-> "select", pos |-> 0, repo |-> NilRepo, err |-> NoErr]

\* a channel field is TRUE once the channel is closed
NewChans(n) == [done |-> FALSE, repos |-> FALSE, rows |-> FALSE, wg |-> n]

\* lateRepos, lateNext and lateRows count what the worker did while i.done
\* was closed: the repositories it took, its calls of the producer's Next
\* and the rows it sent
NewWorker == [pc |-> "range", repo |-> NilRepo, iter |-> NilIter,
              row |-> NilRow, err |-> NoErr,
              lateRepos |-> 0, lateNext |-> 0, lateRows |-> 0]

\* n, and one more while i.done of pipeline r is closed
Late(r, n) == IF chans[r].done THEN n + 1 ELSE n

NewConsumer == [pc |-> "rows", received |-> <<>>, results |-> <<>>, calls |-> 0]

NewRowRepoIter(n) ==
    /\ wNum = n
    /\ feeder = [r \in Runs |-> NewFeeder]
    /\ chans = [r \in Runs |-> NewChans(n)]
    /\ worker = [r \in Runs |-> [w \in 1..n |-> NewWorker]]
    /\ join = [r \in Runs |-> "wait"]
    /\ consumer = [r \in Runs |-> NewConsumer]
    /\ panicked = ""

----------------------------------------------------------------------------
(* The pool as a state machine: one caller, one call at a time *)

\* the largest position GetPos is called with
MaxPos == 4

pool == [repositories |-> repositories, idOrder |-> idOrder]

\* last.before is the pool the call was made on
NoCall == [op |-> "none", id |-> "", path |-> <<>>, pos |-> 0,
           repo |-> NilRepo, err |-> NoErr, opened |-> <<>>,
           before |-> NewRepositoryPool]

\* RepositoryPool.RepoIter(): a cursor at position 0.  results is what the
\* calls of Next on the cursor returned; mutated is set once the pool is
\* changed after the first of these calls.
RepoIter == [pos |-> 0, results |-> <<>>, mutated |-> FALSE]

InitPool ==
    /\ kind \in FileSystems
    /\ repositories = NewRepositoryPool.repositories
    /\ idOrder = NewRepositoryPool.idOrder
    /\ last = NoCall
    /\ cursor = RepoIter
    /\ prod = DefaultFactory
    /\ NewRowRepoIter(1)

CallAdd(id, path) ==
    LET q == Add(pool, id, path)
    IN  /\ repositories' = q.repositories
        /\ idOrder' = q.idOrder
        /\ last' = [NoCall EXCEPT !.op = "Add", !.id = id, !.path = path,
                                  !.before = pool]
        /\ cursor' = [cursor EXCEPT
               !.mutated = @ \/ (Len(cursor.results) > 0 /\ q # pool)]
        /\ UNCHANGED <<kind, pipeVars>>

CallAddGit(path) ==
    LET r == AddGit(pool, path)
    IN  /\ repositories' = r.pool.repositories
        /\ idOrder' = r.pool.idOrder
        /\ last' = [NoCall EXCEPT !.op = "AddGit", !.path = path, !.id = r.id,
                                  !.err = r.err, !.before = pool]
        /\ UNCHANGED <<kind, cursor, pipeVars>>

CallAddDir(path) ==
    LET r == AddDir(pool, path)
    IN  /\ repositories' = r.pool.repositories
        /\ idOrder' = r.pool.idOrder
        /\ last' = [NoCall EXCEPT !.op = "AddDir", !.path = path, !.err = r.err,
                                  !.before = pool]
        /\ UNCHANGED <<kind, cursor, pipeVars>>

CallGetPos(pos) ==
    LET r == GetPos(pool, pos)
    IN  /\ last' = [NoCall EXCEPT !.op = "GetPos", !.pos = pos, !.repo = r.repo,
                                  !.err = r.err, !.opened = r.opened, !.before = pool]
        /\ UNCHANGED <<kind, repositories, idOrder, cursor, pipeVars>>

NextPool ==
    \/ \E id \in Ids, path \in Locs : CallAdd(id, path)
    \/ \E path \in Locs : CallAddGit(path)
    \/ \E path \in Dirs \cup {MissingDir} : CallAddDir(path)
    \/ \E pos \in 0..MaxPos : CallGetPos(pos)

SpecPool == InitPool /\ [][NextPool]_vars

\* the most calls of Next on the cursor
MaxIterCalls == 5

\* a call of RepositoryIter.Next() on the cursor
CallIterNext ==
    /\ Len(cursor.results) < MaxIterCalls
    /\ LET res == IterNext(pool, cursor.pos)
       IN  cursor' = [cursor EXCEPT
               !.pos = res.pos,
               !.results = Append(@, [at |-> cursor.pos, pos |-> res.pos,
                                      repo |-> res.repo, err |-> res.err,
                                      opened |-> GetPos(pool, cursor.pos).opened])]
    /\ UNCHANGED <<kind, repositories, idOrder, last, pipeVars>>

\* the locations handed to Add while a cursor runs: one opens, one does not
IterLocs == {l \in Locs : l[1] = "e"}

InitIter ==
    /\ InitPool
    /\ \A l \in Locs \ IterLocs : kind[l] = "none"

NextIter ==
    \/ \E id \in Ids, path \in IterLocs : CallAdd(id, path)
    \/ CallIterNext

\* a pool built by Add and a cursor over it
SpecIter == InitIter /\ [][NextIter]_vars

----------------------------------------------------------------------------
(* The concurrent row pipeline.  Every channel is unbuffered: a send and    *)
(* its receive are one step of two goroutines.  A panic ends the process.   *)

ClosedChannelPanic == "panic: close of closed channel"
SendOnClosedPanic == "panic: send on closed channel"
NilPointerPanic == "panic: nil pointer dereference"

\* the calls of Next the consumer makes after a call returned an error
MaxExtraCalls == 1

\* no goroutine runs after a panic
Running == panicked = ""

\* fillRepoChannel: select { case <-i.done: return; default: ... }
FillRepoChannelSelect(r) ==
    /\ Running
    /\ feeder[r].pc = "select"
    /\ feeder' = [feeder EXCEPT ![r].pc = IF chans[r].done THEN "returned" ELSE "next"]
    /\ UNCHANGED <<poolVars, wNum, prod, chans, worker, join, consumer, panicked>>

\* fillRepoChannel: repo, err := i.repositoryIter.Next() and the switch on err
FillRepoChannelNext(r) ==
    /\ Running
    /\ feeder[r].pc = "next"
    /\ LET res == IterNext(pool, feeder[r].pos)
       IN  /\ feeder' = [feeder EXCEPT ![r] =
                  [pc |-> IF res.err = NoErr THEN "sendRepo"
                          ELSE IF res.err = EOF THEN "closeRepos" ELSE "closeDone",
                   pos |-> res.pos, repo |-> res.repo, err |-> res.err]]
           /\ panicked' = IF res.err = IndexOutOfRange THEN IndexOutOfRange ELSE panicked
    /\ UNCHANGED <<poolVars, wNum, prod, chans, worker, join, consumer>>

\* a bug fillRepoChannel could have: the default case does not close i.done
FillRepoChannelForgetsDone(r) ==
    /\ Running
    /\ feeder[r].pc = "closeDone"
    /\ feeder' = [feeder EXCEPT ![r].pc = "closeRepos"]
    /\ UNCHANGED <<poolVars, wNum, prod, chans, worker, join, consumer, panicked>>

\* fillRepoChannel, default case: close(i.done)
FillRepoChannelCloseDone(r) ==
    /\ Running
    /\ feeder[r].pc = "closeDone"
    /\ feeder' = [feeder EXCEPT ![r].pc = "closeRepos"]
    /\ chans' = [chans EXCEPT ![r].done = TRUE]
    /\ panicked' = IF chans[r].done THEN ClosedChannelPanic ELSE panicked
    /\ UNCHANGED <<poolVars, wNum, prod, worker, join, consumer>>

\* fillRepoChannel, io.EOF and default cases: close(i.repos)
FillRepoChannelCloseRepos(r) ==
    /\ Running
    /\ feeder[r].pc = "closeRepos"
    /\ feeder' = [feeder EXCEPT ![r].pc = "sendErr"]
    /\ chans' = [chans EXCEPT ![r].repos = TRUE]
    /\ panicked' = IF chans[r].repos THEN ClosedChannelPanic ELSE panicked
    /\ UNCHANGED <<poolVars, wNum, prod, worker, join, consumer>>

\* i.repos <- repo in fillRepoChannel meets `for repo := range i.repos` in
\* worker w
SendRepo(r, w) ==
    /\ Running
    /\ w \in 1..wNum
    /\ feeder[r].pc = "sendRepo"
    /\ worker[r][w].pc = "range"
    /\ feeder' = [feeder EXCEPT ![r].pc = "select"]
    /\ worker' = [worker EXCEPT ![r][w].pc = "newIter", ![r][w].repo = feeder[r].repo,
                                ![r][w].lateRepos = Late(r, @)]
    /\ UNCHANGED <<poolVars, wNum, prod, chans, join, consumer, panicked>>

\* rowReader: the range over i.repos ends, the channel is closed
RowReaderRangeEnd(r, w) ==
    /\ Running
    /\ w \in 1..wNum
    /\ worker[r][w].pc = "range"
    /\ chans[r].repos
    /\ worker' = [worker EXCEPT ![r][w].pc = "return"]
    /\ UNCHANGED <<poolVars, wNum, prod, feeder, chans, join, consumer, panicked>>

\* rowReader: iter, _ := i.iter.NewIterator(repo)
RowReaderNewIterator(r, w) ==
    /\ Running
    /\ w \in 1..wNum
    /\ worker[r][w].pc = "newIter"
    /\ worker' = [worker EXCEPT ![r][w].pc = "select",
                                ![r][w].iter = NewIterator(worker[r][w].repo).iter]
    /\ UNCHANGED <<poolVars, wNum, prod, feeder, chans, join, consumer, panicked>>

\* a bug rowReader could have: the loop does not look at i.done
RowReaderSelectIgnoresDone(r, w) ==
    /\ Running
    /\ w \in 1..wNum
    /\ worker[r][w].pc = "select"
    /\ worker' = [worker EXCEPT ![r][w].pc = "next"]
    /\ UNCHANGED <<poolVars, wNum, prod, feeder, chans, join, consumer, panicked>>

\* a bug rowReader could have: case <-i.done returns without iter.Close()
RowReaderSelectLeaks(r, w) ==
    /\ Running
    /\ w \in 1..wNum
    /\ worker[r][w].pc = "select"
    /\ worker' = [worker EXCEPT
           ![r][w].pc = IF chans[r].done THEN "return" ELSE "next"]
    /\ UNCHANGED <<poolVars, wNum, prod, feeder, chans, join, consumer, panicked>>

\* rowReader: select { case <-i.done: iter.Close(); return; default: ... }
RowReaderSelect(r, w) ==
    /\ Running
    /\ w \in 1..wNum
    /\ worker[r][w].pc = "select"
    /\ IF chans[r].done
       THEN /\ worker' = [worker EXCEPT ![r][w].pc = "return",
                              ![r][w].iter = ProducerClose(worker[r][w].iter)]
            /\ panicked' = IF worker[r][w].iter = NilIter
                           THEN NilPointerPanic ELSE panicked
       ELSE /\ worker' = [worker EXCEPT ![r][w].pc = "next"]
            /\ UNCHANGED panicked
    /\ UNCHANGED <<poolVars, wNum, prod, feeder, chans, join, consumer>>

\* a bug rowReader could have: the default case returns without sending the
\* error
RowReaderNextDropsError(r, w) ==
    /\ Running
    /\ w \in 1..wNum
    /\ worker[r][w].pc = "next"
    /\ LET res == ProducerNext(worker[r][w].iter)
       IN  worker' = [worker EXCEPT
               ![r][w].pc = IF res.err = NoErr THEN "sendRow"
                            ELSE IF res.err = EOF THEN "range" ELSE "closeDone",
               ![r][w].iter = IF res.err = NoErr THEN res.iter
                              ELSE ProducerClose(res.iter),
               ![r][w].row = res.row,
               ![r][w].err = res.err,
               ![r][w].lateNext = Late(r, @)]
    /\ UNCHANGED <<poolVars, wNum, prod, feeder, chans, join, consumer, panicked>>

\* rowReader: row, err := iter.Next() and the switch on err; iter.Close() in
\* the io.EOF and default cases
RowReaderNext(r, w) ==
    /\ Running
    /\ w \in 1..wNum
    /\ worker[r][w].pc = "next"
    /\ LET res == ProducerNext(worker[r][w].iter)
       IN  IF worker[r][w].iter = NilIter
           THEN /\ panicked' = NilPointerPanic
                /\ UNCHANGED worker
           ELSE /\ worker' = [worker EXCEPT
                      ![r][w].pc = IF res.err = NoErr THEN "sendRow"
                                   ELSE IF res.err = EOF THEN "range" ELSE "sendErr",
                      ![r][w].iter = IF res.err = NoErr THEN res.iter
                                     ELSE ProducerClose(res.iter),
                      ![r][w].row = res.row,
                      ![r][w].err = res.err,
                      ![r][w].lateNext = Late(r, @)]
                /\ panicked' = IF res.err = NoErr /\ chans[r].rows
                               THEN SendOnClosedPanic ELSE panicked
    /\ UNCHANGED <<poolVars, wNum, prod, feeder, chans, join, consumer>>

\* i.rows <- row in worker w meets row, ok := <-i.rows in Next, which
\* returns the row; the consumer calls Next again
SendRow(r, w) ==
    /\ Running
    /\ w \in 1..wNum
    /\ worker[r][w].pc = "sendRow"
    /\ consumer[r].pc = "rows"
    /\ worker' = [worker EXCEPT ![r][w].pc = "select",
                                ![r][w].lateRows = Late(r, @)]
    /\ consumer' = [consumer EXCEPT ![r].received = Append(@, worker[r][w].row)]
    /\ UNCHANGED <<poolVars, wNum, prod, feeder, chans, join, panicked>>

\* rowReader, default case after i.err <- err: close(i.done); then, on every
\* return, the deferred i.wg.Done()
RowReaderFinish(r, w) ==
    /\ Running
    /\ w \in 1..wNum
    /\ worker[r][w].pc \in {"closeDone", "return"}
    /\ IF worker[r][w].pc = "closeDone"
       THEN /\ worker' = [worker EXCEPT ![r][w].pc = "return"]
            /\ chans' = [chans EXCEPT ![r].done = TRUE]
            /\ panicked' = IF chans[r].done THEN ClosedChannelPanic ELSE panicked
       ELSE /\ worker' = [worker EXCEPT ![r][w].pc = "exited"]
            /\ chans' = [chans EXCEPT ![r].wg = @ - 1]
            /\ UNCHANGED panicked
    /\ UNCHANGED <<poolVars, wNum, prod, feeder, join, consumer>>

\* a bug NewRowRepoIter could have: rows is closed without wg.Wait()
JoinCloseNoWait(r) ==
    /\ Running
    /\ join[r] = "wait"
    /\ join' = [join EXCEPT ![r] = "returned"]
    /\ chans' = [chans EXCEPT ![r].rows = TRUE]
    /\ panicked' = IF \E w \in 1..wNum : worker[r][w].pc = "sendRow"
                   THEN SendOnClosedPanic ELSE panicked
    /\ UNCHANGED <<poolVars, wNum, prod, feeder, worker, consumer>>

\* the goroutine of NewRowRepoIter: repoIter.wg.Wait(); close(repoIter.rows)
JoinClose(r) ==
    /\ Running
    /\ join[r] = "wait"
    /\ chans[r].wg = 0
    /\ join' = [join EXCEPT ![r] = "returned"]
    /\ chans' = [chans EXCEPT ![r].rows = TRUE]
    /\ panicked' = IF \E w \in 1..wNum : worker[r][w].pc = "sendRow"
                   THEN SendOnClosedPanic ELSE panicked
    /\ UNCHANGED <<poolVars, wNum, prod, feeder, worker, consumer>>

\* rowRepoIter.Next: row, ok := <-i.rows with ok = false, the channel is closed
NextRowsClosed(r) ==
    /\ Running
    /\ consumer[r].pc = "rows"
    /\ chans[r].rows
    /\ consumer' = [consumer EXCEPT ![r].pc = "err"]
    /\ UNCHANGED <<poolVars, wNum, prod, feeder, chans, worker, join, panicked>>

\* the goroutines blocked in i.err <- err: 0 is fillRepoChannel, w > 0 is
\* worker w
ErrSenders(r) ==
    {s \in 0..wNum : IF s = 0 THEN feeder[r].pc = "sendErr"
                               ELSE worker[r][s].pc = "sendErr"}

\* i.err <- err in goroutine s meets return nil, <-i.err in Next
RecvErr(r, s) ==
    /\ Running
    /\ consumer[r].pc = "err"
    /\ s \in ErrSenders(r)
    /\ consumer' = [consumer EXCEPT
           ![r].pc = "stopped",
           ![r].results = Append(@, IF s = 0 THEN feeder[r].err ELSE worker[r][s].err)]
    /\ feeder' = IF s = 0 THEN [feeder EXCEPT ![r].pc = "returned"] ELSE feeder
    /\ worker' = IF s = 0 THEN worker ELSE [worker EXCEPT ![r][s].pc = "closeDone"]
    /\ UNCHANGED <<poolVars, wNum, prod, chans, join, panicked>>

\* the consumer calls Next again after a call that returned an error
NextAgain(r) ==
    /\ Running
    /\ consumer[r].pc = "stopped"
    /\ consumer[r].calls < MaxExtraCalls
    /\ consumer' = [consumer EXCEPT ![r].pc = "rows", ![r].calls = @ + 1]
    /\ UNCHANGED <<poolVars, wNum, prod, feeder, chans, worker, join, panicked>>

Feeder(r) ==
    \/ FillRepoChannelSelect(r)
    \/ FillRepoChannelNext(r)
    \/ FillRepoChannelCloseDone(r)
    \/ FillRepoChannelCloseRepos(r)

RowReader(r, w) ==
    \/ SendRepo(r, w)
    \/ RowReaderRangeEnd(r, w)
    \/ RowReaderNewIterator(r, w)
    \/ RowReaderSelect(r, w)
    \/ RowReaderNext(r, w)
    \/ SendRow(r, w)
    \/ RowReaderFinish(r, w)

Consumer(r) ==
    \/ NextRowsClosed(r)
    \/ \E s \in 0..MaxWorkers : RecvErr(r, s)

\* one step of pipeline r
Pipeline(r) ==
    \/ Feeder(r)
    \/ \E w \in 1..MaxWorkers : RowReader(r, w)
    \/ JoinClose(r)
    \/ Consumer(r)
    \/ NextAgain(r)

\* the file system of the pipeline runs: e/a opens, e/b does not
PipeFileSystem == [l \in Locs |-> IF l[1] = "e" THEN FixedKind(l) ELSE "none"]
PipeLocs == {l \in Locs : l[1] = "e"}

\* the most repositories in the pool of a pipeline run
MaxRepos == 2

\* the sequences of at most n identifiers in which none occurs twice
IdOrders(n) ==
    {o \in UNION {[1..k -> Ids] : k \in 0..n} :
        \A i, j \in 1..Len(o) : o[i] = o[j] => i = j}

\* the pools Add can build with at most n identifiers
Pools(n) ==
    UNION {{[repositories |-> m, idOrder |-> o] :
              m \in [{o[i] : i \in 1..Len(o)} -> PipeLocs]} : o \in IdOrders(n)}

\* the factories whose NewIterator never fails
Factories(p) == {f \in Factory(DOMAIN p.repositories, MaxRows) : f.newFails = {}}

InitRun(maxRepos, maxWorkers) ==
    /\ kind = PipeFileSystem
    /\ \E p \in Pools(maxRepos) :
          /\ repositories = p.repositories
          /\ idOrder = p.idOrder
          /\ prod \in Factories(p)
    /\ last = NoCall
    /\ cursor = RepoIter
    /\ \E n \in 1..maxWorkers : NewRowRepoIter(n)

Init == InitRun(MaxRepos, MaxWorkers)

Next == Pipeline(1)

\* one pipeline over a pool that no one changes
Spec == Init /\ [][Next]_vars

\* The Go scheduler runs every goroutine that can take a step, and the
\* consumer keeps calling Next until a call returns an error.
Fairness(r) ==
    /\ WF_vars(Feeder(r))
    /\ \A w \in 1..MaxWorkers : WF_vars(RowReader(r, w))
    /\ WF_vars(JoinClose(r))
    /\ WF_vars(Consumer(r))

FairSpec == Spec /\ Fairness(1)

\* the factories whose NewIterator fails for some repository
FailingFactories(p) ==
    {f \in Factory(DOMAIN p.repositories, MaxRows) : f.newFails # {}}

InitNewIterFail ==
    /\ kind = PipeFileSystem
    /\ \E p \in Pools(MaxRepos) :
          /\ repositories = p.repositories
          /\ idOrder = p.idOrder
          /\ prod \in FailingFactories(p)
    /\ last = NoCall
    /\ cursor = RepoIter
    /\ \E n \in 1..MaxWorkers : NewRowRepoIter(n)

\* one pipeline over a factory whose NewIterator fails for some repository
NewIterFailSpec == InitNewIterFail /\ [][Next]_vars

\* the most repositories and workers when several pipelines run at once
MultiRepos == 1
MultiWorkers == 1

InitMulti == InitRun(MultiRepos, MultiWorkers)

NextMulti == \E r \in Runs : Pipeline(r)

\* several pipelines over the same pool, consumed concurrently
SpecMulti == InitMulti /\ [][NextMulti]_vars

----------------------------------------------------------------------------
(* Properties of the pipeline *)

\* the set of identifiers in the ordered sequence
IdSet(order) == {order[i] : i \in 1..Len(order)}

\* the ordinal position (from 0) of identifier id in the sequence order
PosOf(order, id) == (CHOOSE i \in 1..Len(order) : order[i] = id) - 1

NoDuplicates(order) ==
    \A i, j \in 1..Len(order) : order[i] = order[j] => i = j

\* the identifiers in the ordered sequence
Registered == {idOrder[i] : i \in 1..Len(idOrder)}

\* every registered location opens
AllOpen == \A id \in Registered : PlainOpen(repositories[id]).err = NoErr

\* no producer fails
NoProducerFails == prod.fails = {}

\* every producer yields c rows
Yields(c) == prod.rows = c

\* the rows a producer yields from it on until it ends
RECURSIVE Drain(_)
Drain(it) ==
    LET res == ProducerNext(it)
    IN  IF res.err # NoErr THEN <<>> ELSE <<res.row>> \o Drain(res.iter)

\* the rows of running the factory over every repository the sequential
\* iterator returns from position pos on
RECURSIVE SequentialRows(_)
SequentialRows(pos) ==
    LET res == IterNext(pool, pos)
    IN  IF res.err # NoErr
        THEN <<>>
        ELSE Drain(NewIterator(res.repo).iter) \o SequentialRows(res.pos)

\* where the sequential iterator stops, and with which error
RECURSIVE SequentialEnd(_)
SequentialEnd(pos) ==
    LET res == IterNext(pool, pos)
    IN  IF res.err # NoErr THEN [pos |-> pos, err |-> res.err]
        ELSE SequentialEnd(res.pos)

\* the bag of the elements of sequence q
BagOf(q) == [x \in {q[i] : i \in 1..Len(q)} |-> Cardinality({i \in 1..Len(q) : q[i] = x})]

\* what the calls of Next of pipeline r returned
Received(r) == consumer[r].received
Results(r) == consumer[r].results
GotEOF(r) == Len(Results(r)) > 0 /\ Results(r)[1] = EOF

\* a producer's Next or the sequential iterator's Next returned an error
\* other than io.EOF in pipeline r
ProducerFailed(r) == \E w \in 1..wNum : worker[r][w].err \notin {NoErr, EOF}
FeederFailed(r) == feeder[r].err \notin {NoErr, EOF}

\* the pools in which the sequential iterator stops with an open error
InitFeedFail ==
    /\ Init
    /\ SequentialEnd(0).err # EOF
    /\ NoProducerFails

\* one pipeline whose feeder meets a location that does not open
FeedFailSpec == InitFeedFail /\ [][Next]_vars /\ Fairness(1)

\* C1: with every registered location opening and every producer yielding
\* c rows without failing, a call of Next returns io.EOF only after the
\* calls before it returned n*c rows, the same rows (as a multiset) as
\* running the factory over the sequential iterator.
C1_AllRowsBeforeEOF ==
    \A c \in 0..MaxRows :
        (AllOpen /\ NoProducerFails /\ Yields(c) /\ GotEOF(1))
            => /\ Len(Received(1)) = Len(idOrder) * c
               /\ BagOf(Received(1)) = BagOf(SequentialRows(0))

\* The same with no empty identifier in the pool: GetPos returns io.EOF at
\* the position of the empty identifier, and the feeder stops there.
AllRowsBeforeEOFNonEmptyIds ==
    \A c \in 0..MaxRows :
        ("" \notin Registered /\ AllOpen /\ NoProducerFails /\ Yields(c) /\ GotEOF(1))
            => /\ Len(Received(1)) = Len(idOrder) * c
               /\ BagOf(Received(1)) = BagOf(SequentialRows(0))

\* with every registered location opening and no producer failing, a call of
\* Next returns io.EOF in the end
EOFInTheEnd == (AllOpen /\ NoProducerFails) => <> GotEOF(1)

\* exactly one producer fails, nothing else does, and its Next has
\* returned the error to worker w
OneProducerFailed(r, id) ==
    /\ prod.fails = {id}
    /\ SequentialEnd(0).err = EOF
    /\ \E w \in 1..wNum : worker[r][w].err = ErrProducer(id)

\* C2: when exactly one producer has failed, the consumer receives that
\* error from a call of Next: once no goroutine can take a step any more,
\* it has received it.
C2_ErrorReachesConsumer ==
    \A id \in Ids :
        (OneProducerFailed(1, id) /\ ~ENABLED Next)
            => \E i \in 1..Len(Results(1)) : Results(1)[i] = ErrProducer(id)

\* C3: in a run in which a producer or the sequential iterator has
\* returned an error other than io.EOF, no call of Next returns io.EOF.
C3_NoEOFAfterFailure ==
    (ProducerFailed(1) \/ FeederFailed(1))
        => \A i \in 1..Len(Results(1)) : Results(1)[i] # EOF

C3_Witness ==
    /\ FeederFailed(1)
    /\ Len(Received(1)) > 0
    /\ Results(1) = <<ErrRepositoryNotExists>>

\* the ordinal position of the repository worker w of pipeline r holds
HeldPos(r, w) == PosOf(idOrder, worker[r][w].repo.ID)

\* the feeder of pipeline r fed no repository at position p or beyond
FedBelow(r, p) ==
    /\ feeder[r].pos <= p
    /\ \A w \in 1..wNum : worker[r][w].repo # NilRepo => HeldPos(r, w) < p
    /\ \A i \in 1..Len(Received(r)) : PosOf(idOrder, Received(r)[i].repo) < p

\* the end of a run whose feeder failed with error e
FeedFailEnd(r, e) ==
    /\ chans[r].done
    /\ chans[r].repos
    /\ \A w \in 1..wNum : worker[r][w].pc = "exited"
    /\ chans[r].rows
    /\ Results(r) = <<e>>
    /\ panicked = ""

\* C4: when the sequential iterator fails at position p and no producer
\* fails, no repository at position p or beyond is ever fed, and in the end
\* the cancellation signal is raised, the work queue closed, every worker
\* gone, the output queue closed and the open error returned by Next.
C4_FeederFailure ==
    (SequentialEnd(0).err # EOF /\ NoProducerFails)
        => /\ [] FedBelow(1, SequentialEnd(0).pos)
           /\ <> FeedFailEnd(1, SequentialEnd(0).err)

C4_Witness ==
    /\ SequentialEnd(0).pos = 1
    /\ Len(Received(1)) = 2
    /\ FeedFailEnd(1, ErrRepositoryNotExists)

\* C5: the rows of one repository reach the consumer in the order its
\* producer yielded them.
C5_OrderWithinRepository ==
    \A i, j \in 1..Len(Received(1)) :
        (i < j /\ Received(1)[i].repo = Received(1)[j].repo)
            => Received(1)[i].n < Received(1)[j].n

C5_Witness ==
    /\ Len(Received(1)) = 4
    /\ Received(1)[1].repo # Received(1)[2].repo
    /\ Received(1)[1].repo = Received(1)[3].repo
    /\ Received(1)[2].repo = Received(1)[4].repo

\* C6: of several pipelines over the same pool, each one returns n*c rows
\* and then io.EOF to its own consumer.
C6_RunsIndependent ==
    \A r \in Runs : \A c \in 0..MaxRows :
        (AllOpen /\ NoProducerFails /\ Yields(c) /\ GotEOF(r))
            => /\ Len(Received(r)) = Len(idOrder) * c
               /\ BagOf(Received(r)) = BagOf(SequentialRows(0))

\* The same with no empty identifier in the pool.
RunsIndependentNonEmptyIds ==
    \A r \in Runs : \A c \in 0..MaxRows :
        ("" \notin Registered /\ AllOpen /\ NoProducerFails /\ Yields(c) /\ GotEOF(r))
            => /\ Len(Received(r)) = Len(idOrder) * c
               /\ BagOf(Received(r)) = BagOf(SequentialRows(0))

\* a step of one pipeline leaves the pool and the other pipelines as they are
RunsShareNothing ==
    [][\A r \in Runs :
          (feeder'[r] # feeder[r] \/ chans'[r] # chans[r] \/ worker'[r] # worker[r]
              \/ join'[r] # join[r] \/ consumer'[r] # consumer[r])
          => /\ UNCHANGED <<repositories, idOrder, kind>>
             /\ \A q \in Runs \ {r} :
                   /\ feeder'[q] = feeder[q]
                   /\ chans'[q] = chans[q]
                   /\ worker'[q] = worker[q]
                   /\ join'[q] = join[q]
                   /\ consumer'[q] = consumer[q]]_vars

\* no goroutine of the pipeline can take a step
Stuck == ~ENABLED Next

\* worker w of pipeline r got an error other than io.EOF from its producer
WorkerFailed(r, w) == worker[r][w].err \notin {NoErr, EOF}

\* C13: a worker whose producer's Next returned an error other than io.EOF
\* closes the producer, raises the cancellation signal and terminates,
\* whatever the other goroutines do: once nothing can step any more, it has
\* done all three.
C13_FailedWorkerTerminates ==
    \A w \in 1..MaxWorkers :
        (w \in 1..wNum /\ WorkerFailed(1, w) /\ Stuck)
            => /\ worker[1][w].iter.closed = 1
               /\ chans[1].done
               /\ worker[1][w].pc = "exited"

\* C14: no worker sends a row on the output queue while the cancellation
\* signal is raised.
C14_NoRowAfterCancel ==
    \A w \in 1..wNum : worker[1][w].lateRows = 0

\* C14 as amended: a worker looks at the cancellation signal before each call
\* of its producer's Next and nowhere else; when it finds the signal raised
\* it closes the producer and returns without a call of Next or a row, and
\* the row of a call begun before is still sent: no worker sends more than
\* one row while the signal is raised.
C14_AtMostOneRowAfterCancel ==
    \A w \in 1..wNum :
        /\ worker[1][w].lateRows <= 1
        /\ (worker[1][w].pc = "sendRow" /\ chans[1].done)
               => worker[1][w].lateRows = 0

C14_Witness ==
    \E w \in 1..wNum :
        /\ worker[1][w].lateRows = 1
        /\ worker[1][w].pc = "exited"
        /\ worker[1][w].iter.closed = 1
        /\ worker[1][w].iter.n < RowsOf(worker[1][w].iter.id)

\* once the cancellation signal is raised, a worker calls Next at most once
\* more, sends at most one more row and takes no more repository
BoundedAfterCancel(r) ==
    \A w \in 1..wNum :
        /\ worker[r][w].lateNext <= 1
        /\ worker[r][w].lateRows <= 1
        /\ worker[r][w].lateRepos = 0

\* C15: once the cancellation signal is raised, each worker calls Next at
\* most once more, sends at most one more row, takes no more repository, and
\* then closes its producer and terminates: once nothing can step any more,
\* every worker is gone.
C15_BoundedCancellation ==
    /\ BoundedAfterCancel(1)
    /\ (chans[1].done /\ Stuck)
           => \A w \in 1..wNum :
                 /\ worker[1][w].pc = "exited"
                 /\ worker[1][w].iter # NilIter => worker[1][w].iter.closed = 1

\* The bounds alone, in every run.
BoundedCancellationSafety == BoundedAfterCancel(1)

C17_ProducerLifecycle ==
    \A w \in 1..wNum :
        LET wk == worker[1][w]
        IN  /\ wk.pc \in {"select", "next", "sendRow"}
                   => /\ wk.iter # NilIter
                      /\ wk.iter.id = wk.repo.ID
                      /\ wk.iter.closed = 0
            /\ wk.pc \in {"range", "newIter", "sendErr", "closeDone", "return", "exited"}
                   => wk.iter = NilIter \/ wk.iter.closed = 1

C17_Witness ==
    /\ wNum = 2
    /\ \E w \in 1..wNum :
          /\ worker[1][w].pc = "exited"
          /\ worker[1][w].iter.closed = 1
          /\ worker[1][w].lateNext = 0
          /\ worker[1][w].iter.n = 1
    /\ chans[1].done

\* C18: every call of Next made once the output queue is closed returns,
\* io.EOF after a clean run and the recorded error otherwise: once nothing
\* can step any more, no call is pending and every call returned that value.
C18_TerminalNext ==
    (chans[1].rows /\ Stuck)
        => /\ consumer[1].pc = "stopped"
           /\ Len(Results(1)) = consumer[1].calls + 1
           /\ \A i \in 1..Len(Results(1)) : Results(1)[i] = feeder[1].err

\* The first of these calls returns that value.
FirstTerminalNext ==
    (chans[1].rows /\ Stuck)
        => /\ Len(Results(1)) = 1
           /\ Results(1)[1] = feeder[1].err

\* C19: when NewIterator fails for a repository, the worker calls neither
\* Next nor Close on the producer it did not get, and the run does not
\* crash.
C19_NewIteratorFailure == panicked = ""

----------------------------------------------------------------------------
(* Properties of the pool *)

\* C7: GetPos at a position >= the number of registered identifiers returns
\* no repository and io.EOF and leaves the pool as it was, whatever the pool
\* (the empty pool included).
C7_GetPosPastEnd ==
    (last.op = "GetPos" /\ last.pos >= Len(last.before.idOrder))
        => /\ last.repo = NilRepo
           /\ last.err = EOF
           /\ pool = last.before

C7_Witness ==
    /\ last.op = "GetPos"
    /\ Len(idOrder) = 2
    /\ last.pos = Len(idOrder)
    /\ last.err = EOF

\* C8: a second Add of a registered identifier with another location leaves
\* the ordered sequence as it was (same length, same order, same position of
\* the identifier), and GetPos at that position then opens the new location.
C8_AddIsUpsert ==
    (/\ last.op = "Add"
     /\ last.id \in DOMAIN last.before.repositories
     /\ last.before.repositories[last.id] # last.path)
        => /\ idOrder = last.before.idOrder
           /\ GetPos(pool, PosOf(idOrder, last.id)).opened = last.path

\* The same for a non-empty identifier: GetPos returns io.EOF at the position
\* of the empty identifier and opens nothing.
AddIsUpsertNonEmptyId ==
    (/\ last.op = "Add"
     /\ last.id # ""
     /\ last.id \in DOMAIN last.before.repositories
     /\ last.before.repositories[last.id] # last.path)
        => /\ idOrder = last.before.idOrder
           /\ GetPos(pool, PosOf(idOrder, last.id)).opened = last.path

\* C9: the ordered sequence holds no identifier twice, every identifier in it
\* is a key of the mapping, and the sequence is as long as the mapping is big.
C9_PoolInvariant ==
    /\ NoDuplicates(idOrder)
    /\ IdSet(idOrder) \subseteq DOMAIN repositories
    /\ Len(idOrder) = Cardinality(DOMAIN repositories)

C9_Witness ==
    /\ last.op = "Add"
    /\ last.id \in DOMAIN last.before.repositories
    /\ Len(idOrder) = 3

\* the names of the subdirectories of path that open as repositories
ValidChildren(path) == {n \in Names : kind[Join(path, n)] = "repo"}

\* the names of the subdirectories of path that do not
InvalidChildren(path) == {n \in Names : kind[Join(path, n)] = "dir"}

\* C10: AddDir of a listable directory on an empty pool returns no error and
\* registers exactly the names of the subdirectories that open as
\* repositories; AddGit of a location that does not open returns the open
\* error and leaves the mapping and the ordered sequence as they were.
C10_AddDirRegistersValid ==
    /\ (last.op = "AddDir" /\ last.path \in Dirs /\ last.before = NewRepositoryPool)
           => /\ last.err = NoErr
              /\ Len(idOrder) = Cardinality(ValidChildren(last.path))
              /\ IdSet(idOrder) = ValidChildren(last.path)
              /\ DOMAIN repositories = ValidChildren(last.path)
    /\ (last.op = "AddGit" /\ PlainOpen(last.path).err # NoErr)
           => /\ last.err = PlainOpen(last.path).err
              /\ pool = last.before

C10_Witness ==
    /\ last.op = "AddDir"
    /\ last.before = NewRepositoryPool
    /\ Cardinality(ValidChildren(last.path)) = 1
    /\ Cardinality(InvalidChildren(last.path)) = 1
    /\ Len(idOrder) = 1

----------------------------------------------------------------------------
(* Properties of the sequential iterator *)

\* what the calls of Next on the cursor returned
Calls == cursor.results

\* C11: over a pool of k non-empty identifiers whose locations all open and
\* that is not changed once the cursor is used, the i-th call of Next
\* (i <= k) returns the repository of the i-th identifier of the insertion
\* order and moves the position from i-1 to i; every later call returns
\* io.EOF and leaves the position at k.
C11_SequentialIterator ==
    (~cursor.mutated /\ "" \notin Registered /\ AllOpen)
        => \A i \in 1..Len(Calls) :
              IF i <= Len(idOrder)
              THEN /\ Calls[i].err = NoErr
                   /\ Calls[i].repo.ID = idOrder[i]
                   /\ Calls[i].repo.Repo = repositories[idOrder[i]]
                   /\ Calls[i].at = i - 1
                   /\ Calls[i].pos = i
              ELSE /\ Calls[i].err = EOF
                   /\ Calls[i].repo = NilRepo
                   /\ Calls[i].at = Len(idOrder)
                   /\ Calls[i].pos = Len(idOrder)

C11_Witness ==
    /\ ~cursor.mutated
    /\ idOrder = <<"b", "a">>
    /\ AllOpen
    /\ Len(Calls) = 4
    /\ Calls[2].repo.ID = "a"
    /\ Calls[4].err = EOF

\* the i-th call of Next opened a location and the open failed
OpenFailed(i) ==
    /\ Calls[i].opened # <<>>
    /\ PlainOpen(Calls[i].opened).err # NoErr

\* C12: when the location at the cursor's position p fails to open, Next
\* returns the open error and leaves the position at p; while the pool is
\* not changed every later call returns that error for position p again and
\* returns no repository.
C12_HardStop ==
    ~cursor.mutated
        => \A i \in 1..Len(Calls) :
              OpenFailed(i)
                  => /\ Calls[i].err = PlainOpen(Calls[i].opened).err
                     /\ Calls[i].err # EOF
                     /\ Calls[i].pos = Calls[i].at
                     /\ \A j \in (i + 1)..Len(Calls) :
                           /\ Calls[j].at = Calls[i].at
                           /\ Calls[j].err = Calls[i].err
                           /\ Calls[j].repo = NilRepo

C12_Witness ==
    /\ ~cursor.mutated
    /\ Len(idOrder) = 2
    /\ PlainOpen(repositories[idOrder[2]]).err = NoErr
    /\ Len(Calls) = 3
    /\ OpenFailed(1)
    /\ Calls[3].err = ErrRepositoryNotExists
    /\ Calls[3].at = 0

\* C20: GetPos at a position below the number of registered identifiers
\* returns the repository of the identifier at that position or the open
\* error of its location, never io.EOF, whatever the identifiers are (the
\* empty string included).
C20_EOFOnlyOutOfRange ==
    (last.op = "GetPos" /\ last.pos < Len(idOrder))
        => LET id == idOrder[last.pos + 1]
               o == PlainOpen(repositories[id])
           IN  /\ last.err # EOF
               /\ IF o.err = NoErr
                  THEN last.err = NoErr /\ last.repo = NewRepository(id, o.repo)
                  ELSE last.err = o.err /\ last.repo = NilRepo

\* The same for the positions of non-empty identifiers.
EOFOnlyOutOfRangeNonEmptyId ==
    (last.op = "GetPos" /\ last.pos < Len(idOrder) /\ idOrder[last.pos + 1] # "")
        => LET id == idOrder[last.pos + 1]
               o == PlainOpen(repositories[id])
           IN  /\ last.err # EOF
               /\ IF o.err = NoErr
                  THEN last.err = NoErr /\ last.repo = NewRepository(id, o.repo)
                  ELSE last.err = o.err /\ last.repo = NilRepo

====
